---- MODULE Spec2Model ----
(***************************************************************************)
(* Model of src/src/backtester.py: the Backtester portfolio ledger         *)
(* (execute_trade, calculate_portfolio_value) and the run_backtest loop.   *)
(*                                                                         *)
(* Money and prices are integers.  A requested quantity is a float in the  *)
(* code; here it is the numerator of a fraction over QtyDen, so that       *)
(* int(quantity) truncates.  margin_ratio is a numerator over RatioDen and *)
(* margin amounts are kept in units of 1/RatioDen of money.                *)
(***************************************************************************)
EXTENDS Integers, Sequences, FiniteSets, TLC

\* ---------------------------------------------------------------- bounds
\* last calendar day of the largest date range (day 1 is a Monday)
MaxDate == 8
\* largest requested quantity, as a numerator over QtyDen
MaxQty == 4
\* largest closing price
MaxPrice == 2
\* largest initial capital
MaxCapital == 5

\* ------------------------------------------------------------ parameters
QtyDen == 2
RatioDen == 2

tickers == <<"A", "B">>
Tickers == {tickers[i] : i \in 1..Len(tickers)}

ActionStrings == {"buy", "sell", "short", "cover", "hold", "bogus"}
Quantities == {-1, 0, 1, MaxQty - 1, MaxQty}
Prices == {1, MaxPrice}
Capitals == {0, MaxCapital}
StartDates == {5, 6}
EndDates == {6, MaxDate}
MarginRatios == {0, 1}

\* a decision dict as the agent returns it; either key may be missing
DecisionDicts ==
    [action : ActionStrings, quantity : Quantities]
      \cup [action : {"buy"}] \cup [quantity : {MaxQty}]

\* the decisions mapping; a ticker may be absent from it
DecisionMaps == UNION {[S -> DecisionDicts] : S \in SUBSET Tickers}

VARIABLES
    portfolio,         \* self.portfolio
    margin_ratio,      \* self.margin_ratio
    initial_capital,   \* self.initial_capital
    start_date,        \* self.start_date
    end_date,          \* self.end_date
    portfolio_values,  \* self.portfolio_values
    pc,                \* position of run_backtest
    di,                \* index of current_date in dates
    current_prices,    \* local current_prices of the loop body
    decisions,         \* local decisions of the loop body
    ti,                \* index of ticker in the trade loop
    ret,               \* last value returned by execute_trade
    skipped,           \* dates whose iteration ended in the except branch
    called,            \* dates for which self.agent was invoked
    day_open,          \* the ledger as the current iteration's trades found it
    value_call,        \* a call of calculate_portfolio_value from outside
    selected_analysts, \* self.selected_analysts
    workflow           \* the workflow that run_hedge_fund is building

vars == <<portfolio, margin_ratio, initial_capital, start_date, end_date,
          portfolio_values, pc, di, current_prices, decisions, ti, ret,
          skipped, called, day_open, value_call, selected_analysts,
          workflow>>

\* ------------------------------------------------------------- helpers
Min(a, b) == IF a <= b THEN a ELSE b

\* pandas date_range(start, end, freq="B"): Monday..Friday only
IsBusinessDay(d) == (d % 7) \in 1..5

RECURSIVE DateRange(_, _)
DateRange(s, e) ==
    IF s > e THEN <<>>
    ELSE IF IsBusinessDay(s) THEN <<s>> \o DateRange(s + 1, e)
    ELSE DateRange(s + 1, e)

dates == DateRange(start_date, end_date)

\* a conversion that rounds up instead of truncating
IntOf_RoundsUp(quantity) == (quantity + QtyDen - 1) \div QtyDen

\* int(quantity) for quantity > 0
IntOf(quantity) == quantity \div QtyDen

\* ------------------------------------------------------------ the ledger
NewPortfolio(capital) ==
    [cash |-> capital,
     margin_used |-> 0,
     positions |-> [t \in Tickers |->
                      [long |-> 0, short |-> 0, long_cost_basis |-> 0,
                       short_cost_basis |-> 0, short_margin_used |-> 0]],
     realized_gains |-> [t \in Tickers |-> [long |-> 0, short |-> 0]]]

\* Buy without the "cost <= cash" test
Buy_NoCashCheck(pf, ticker, quantity, current_price) ==
    [portfolio |->
       [pf EXCEPT !.positions[ticker].long = @ + quantity,
                  !.cash = @ - quantity * current_price],
     ret |-> quantity]

\* a buy that notes its price as the cost basis of the position
Buy_RecordsBasis(pf, ticker, quantity, current_price) ==
    LET cost == quantity * current_price IN
    IF cost <= pf.cash
    THEN [portfolio |->
            [pf EXCEPT !.positions[ticker].long = @ + quantity,
                       !.positions[ticker].long_cost_basis = current_price,
                       !.cash = @ - cost],
          ret |-> quantity]
    ELSE [portfolio |-> pf, ret |-> 0]

\* a buy that books the shares on the first ticker of the universe
Buy_BooksFirstTicker(pf, ticker, quantity, current_price) ==
    LET cost == quantity * current_price IN
    IF cost <= pf.cash
    THEN [portfolio |->
            [pf EXCEPT !.positions[tickers[1]].long = @ + quantity,
                       !.cash = @ - cost],
          ret |-> quantity]
    ELSE [portfolio |-> pf, ret |-> 0]

\* the buy branch; quantity is already an int
Buy(pf, ticker, quantity, current_price) ==
    LET cost == quantity * current_price IN
    IF cost <= pf.cash
    THEN [portfolio |->
            [pf EXCEPT !.positions[ticker].long = @ + quantity,
                       !.cash = @ - cost],
          ret |-> quantity]
    ELSE [portfolio |-> pf, ret |-> 0]

\* Sell without "quantity = min(quantity, position['long'])"
Sell_NoCap(pf, ticker, quantity, current_price) ==
    IF quantity > 0
    THEN [portfolio |->
            [pf EXCEPT !.positions[ticker].long = @ - quantity,
                       !.cash = @ + quantity * current_price],
          ret |-> quantity]
    ELSE [portfolio |-> pf, ret |-> 0]

\* Sell that credits the requested quantity instead of the capped one
Sell_CreditsRequest(pf, ticker, quantity, current_price) ==
    LET q == Min(quantity, pf.positions[ticker].long) IN
    IF q > 0
    THEN [portfolio |->
            [pf EXCEPT !.positions[ticker].long = @ - q,
                       !.cash = @ + quantity * current_price],
          ret |-> q]
    ELSE [portfolio |-> pf, ret |-> 0]

\* the sell branch; quantity is already an int
Sell(pf, ticker, quantity, current_price) ==
    LET q == Min(quantity, pf.positions[ticker].long) IN
    IF q > 0
    THEN [portfolio |->
            [pf EXCEPT !.positions[ticker].long = @ - q,
                       !.cash = @ + q * current_price],
          ret |-> q]
    ELSE [portfolio |-> pf, ret |-> 0]

\* a fall-through that opens a short for the whole request and pledges its
\* collateral without looking at the cash
Other_FillsShort(pf, ticker, quantity, current_price) ==
    [portfolio |->
       [pf EXCEPT !.positions[ticker].short = @ + quantity,
                  !.positions[ticker].short_margin_used =
                      @ + quantity * current_price * margin_ratio,
                  !.margin_used = @ + quantity * current_price * margin_ratio],
     ret |-> quantity]

\* a fall-through that adds the collateral of the request to the
\* portfolio's margin_used and not to the position's short_margin_used
Other_PledgesGlobalOnly(pf, ticker, quantity, current_price) ==
    [portfolio |->
       [pf EXCEPT !.margin_used = @ + quantity * current_price * margin_ratio],
     ret |-> 0]

\* every action other than buy and sell falls through to "return 0"
Other(pf, ticker, quantity, current_price) ==
    [portfolio |-> pf, ret |-> 0]

execute_trade(pf, ticker, action, quantity, current_price) ==
    IF quantity <= 0 THEN [portfolio |-> pf, ret |-> 0]
    ELSE LET q == IntOf(quantity) IN
         IF action = "buy" THEN Buy(pf, ticker, q, current_price)
         ELSE IF action = "sell" THEN Sell(pf, ticker, q, current_price)
         ELSE Other(pf, ticker, q, current_price)

\* a valuation loop that nets the short shares against the long ones
RECURSIVE LongValue_NetsShort(_, _, _)
LongValue_NetsShort(pf, prices, i) ==
    IF i > Len(tickers) THEN 0
    ELSE (pf.positions[tickers[i]].long - pf.positions[tickers[i]].short)
           * prices[tickers[i]]
         + LongValue_NetsShort(pf, prices, i + 1)

RECURSIVE LongValue(_, _, _)
LongValue(pf, prices, i) ==
    IF i > Len(tickers) THEN 0
    ELSE pf.positions[tickers[i]].long * prices[tickers[i]]
         + LongValue(pf, prices, i + 1)

calculate_portfolio_value(pf, prices) == pf.cash + LongValue(pf, prices, 1)

\* ------------------------------------------------------------ the driver
\* a lookup whose default action is "buy"
DecisionOf_DefaultsBuy(ds, ticker) ==
    LET decision == IF ticker \in DOMAIN ds THEN ds[ticker]
                    ELSE [action |-> "buy", quantity |-> 0] IN
    [action |-> IF "action" \in DOMAIN decision
                THEN decision.action ELSE "buy",
     quantity |-> IF "quantity" \in DOMAIN decision
                  THEN decision.quantity ELSE 0]

\* decisions.get(ticker, {"action": "hold", "quantity": 0}) and the two
\* decision.get(...) defaults
DecisionOf(ds, ticker) ==
    LET decision == IF ticker \in DOMAIN ds THEN ds[ticker]
                    ELSE [action |-> "hold", quantity |-> 0] IN
    [action |-> IF "action" \in DOMAIN decision
                THEN decision.action ELSE "hold",
     quantity |-> IF "quantity" \in DOMAIN decision
                  THEN decision.quantity ELSE 0]

\* current_prices[ticker] raises KeyError for a ticker the snapshot lacks
KeyError(prices) == \E i \in 1..Len(tickers) : tickers[i] \notin DOMAIN prices

\* a valuation that reads the snapshot with a default of 0 for a missing
\* ticker
CallValue_SkipsMissing(pf, prices) ==
    [raised |-> FALSE,
     value |-> calculate_portfolio_value(
                   pf, [t \in Tickers |->
                          IF t \in DOMAIN prices THEN prices[t] ELSE 0])]

\* outcome of calculate_portfolio_value(prices) on any snapshot
CallValue(pf, prices) ==
    IF KeyError(prices) THEN [raised |-> TRUE, value |-> 0]
    ELSE [raised |-> FALSE, value |-> calculate_portfolio_value(pf, prices)]

\* price snapshots a caller can pass; a ticker may be missing
Snapshots == UNION {[S -> Prices] : S \in SUBSET Tickers}

NoCall == [made |-> FALSE, prices |-> [t \in {} |-> 0],
           raised |-> FALSE, value |-> 0]

\* no workflow is being built
NoWorkflow == [keys |-> <<>>, k |-> 0, nodes |-> <<>>]
NoPrices == [t \in Tickers |-> 0]
NoDecisions == [t \in {} |-> 0]
\* the value of output["decisions"] when the agent's last message is not
\* JSON: not a mapping of tickers
None == [n \in {"None"} |-> "None"]

Init ==
    /\ initial_capital \in Capitals
    /\ margin_ratio \in MarginRatios
    /\ start_date \in StartDates
    /\ end_date \in EndDates
    /\ portfolio = NewPortfolio(initial_capital)
    /\ portfolio_values = <<>>
    /\ pc = "constructed"
    /\ di = 0
    /\ current_prices = NoPrices
    /\ decisions = NoDecisions
    /\ ti = 0
    /\ ret = 0
    /\ skipped = {}
    /\ called = {}
    /\ day_open = portfolio
    /\ value_call = NoCall
    /\ selected_analysts = <<>>
    /\ workflow = NoWorkflow

\* run_backtest up to the loop: the history is seeded with the first date
StartBacktest ==
    /\ pc = "constructed"
    /\ portfolio_values' =
         IF Len(dates) > 0
         THEN <<[Date |-> dates[1], Value |-> initial_capital]>>
         ELSE portfolio_values
    /\ di' = 1
    /\ pc' = "fetch"
    /\ UNCHANGED <<portfolio, margin_ratio, initial_capital, start_date,
                   end_date, current_prices, decisions, ti, ret, skipped,
                   called,
                   day_open, value_call,
                   selected_analysts, workflow>>

\* the price comprehension returned a close for every ticker
FetchPrices(P) ==
    /\ pc = "fetch"
    /\ di <= Len(dates)
    /\ \E prices \in [Tickers -> P] : current_prices' = prices
    /\ pc' = "agent"
    /\ UNCHANGED <<portfolio, margin_ratio, initial_capital, start_date,
                   end_date, portfolio_values, di, decisions, ti, ret,
                   skipped, called,
                   day_open, value_call,
                   selected_analysts, workflow>>

\* an except branch that falls through to the valuation append instead of
\* "continue"
FetchPricesFail_Records ==
    /\ pc = "fetch"
    /\ di <= Len(dates)
    /\ skipped' = skipped \cup {dates[di]}
    /\ portfolio_values' =
         Append(portfolio_values,
                [Date |-> dates[di], Value |-> portfolio.cash])
    /\ di' = di + 1
    /\ UNCHANGED <<portfolio, margin_ratio, initial_capital, start_date,
                   end_date, pc, current_prices, decisions, ti, ret, called,
                   day_open, value_call,
                   selected_analysts, workflow>>

\* an except branch without "continue": the iteration goes on to the agent
\* with whatever current_prices holds
FetchPricesFail_CallsAgent ==
    /\ pc = "fetch"
    /\ di <= Len(dates)
    /\ dates[di] \notin skipped
    /\ skipped' = skipped \cup {dates[di]}
    /\ pc' = "agent"
    /\ UNCHANGED <<portfolio, margin_ratio, initial_capital, start_date,
                   end_date, portfolio_values, di, current_prices, decisions,
                   ti, ret, called,
                   day_open, value_call,
                   selected_analysts, workflow>>

\* an except branch that re-raises: the failure leaves run_backtest
FetchPricesFail_EndsRun ==
    /\ pc = "fetch"
    /\ di <= Len(dates)
    /\ skipped' = skipped \cup {dates[di]}
    /\ pc' = "done"
    /\ UNCHANGED <<portfolio, margin_ratio, initial_capital, start_date,
                   end_date, portfolio_values, di, current_prices, decisions,
                   ti, ret, called,
                   day_open, value_call,
                   selected_analysts, workflow>>

\* get_price_data raised for some ticker: except branch, continue
FetchPricesFail ==
    /\ pc = "fetch"
    /\ di <= Len(dates)
    /\ skipped' = skipped \cup {dates[di]}
    /\ di' = di + 1
    /\ UNCHANGED <<portfolio, margin_ratio, initial_capital, start_date,
                   end_date, portfolio_values, pc, current_prices, decisions,
                   ti, ret, called,
                   day_open, value_call,
                   selected_analysts, workflow>>

\* self.agent(...) returned one of the mappings of D;
\* decisions = output.get("decisions", {})
CallAgentWith(D) ==
    /\ pc = "agent"
    /\ \E ds \in D : decisions' = ds
    /\ called' = called \cup {dates[di]}
    /\ day_open' = portfolio
    /\ ti' = 1
    /\ pc' = "trade"
    /\ UNCHANGED <<portfolio, margin_ratio, initial_capital, start_date,
                   end_date, portfolio_values, di, current_prices, ret,
                   skipped, value_call,
                   selected_analysts, workflow>>

CallAgent == CallAgentWith(DecisionMaps)

\* a trade loop whose every call sees the cash the day opened with
TradeStep_DayOpenCash ==
    /\ pc = "trade"
    /\ ti <= Len(tickers)
    /\ LET ticker == tickers[ti]
           d == DecisionOf(decisions, ticker)
           r == execute_trade([portfolio EXCEPT !.cash = day_open.cash],
                              ticker, d.action, d.quantity,
                              current_prices[ticker])
       IN /\ portfolio' =
                [r.portfolio EXCEPT
                    !.cash = portfolio.cash + (@ - day_open.cash)]
          /\ ret' = r.ret
    /\ ti' = ti + 1
    /\ pc' = IF ti = Len(tickers) THEN "value" ELSE "trade"
    /\ UNCHANGED <<margin_ratio, initial_capital, start_date, end_date,
                   portfolio_values, di, current_prices, decisions, skipped,
                   called,
                   day_open, value_call,
                   selected_analysts, workflow>>

\* one iteration of "for ticker in self.tickers"
TradeStep ==
    /\ pc = "trade"
    /\ ti <= Len(tickers)
    /\ decisions # None
    /\ LET ticker == tickers[ti]
           d == DecisionOf(decisions, ticker)
           r == execute_trade(portfolio, ticker, d.action, d.quantity,
                              current_prices[ticker])
       IN /\ portfolio' = r.portfolio
          /\ ret' = r.ret
    /\ ti' = ti + 1
    /\ pc' = IF ti = Len(tickers) THEN "value" ELSE "trade"
    /\ UNCHANGED <<margin_ratio, initial_capital, start_date, end_date,
                   portfolio_values, di, current_prices, decisions, skipped,
                   called,
                   day_open, value_call,
                   selected_analysts, workflow>>

\* a valuation step that stores the day's record over the last one instead
\* of appending it
RecordValue_Overwrites ==
    /\ pc = "value"
    /\ portfolio_values' =
         [portfolio_values EXCEPT ![Len(portfolio_values)] =
                [Date |-> dates[di],
                 Value |-> calculate_portfolio_value(portfolio,
                                                     current_prices)]]
    /\ di' = di + 1
    /\ pc' = "fetch"
    /\ current_prices' = NoPrices
    /\ decisions' = NoDecisions
    /\ ti' = 0
    /\ ret' = 0
    /\ day_open' = portfolio
    /\ UNCHANGED <<portfolio, margin_ratio, initial_capital, start_date,
                   end_date, skipped, called, value_call,
                   selected_analysts, workflow>>

\* calculate_portfolio_value and the append; the iteration ends, and its
\* locals are rebound before they are read again
RecordValue ==
    /\ pc = "value"
    /\ portfolio_values' =
         Append(portfolio_values,
                [Date |-> dates[di],
                 Value |-> calculate_portfolio_value(portfolio,
                                                     current_prices)])
    /\ di' = di + 1
    /\ pc' = "fetch"
    /\ current_prices' = NoPrices
    /\ decisions' = NoDecisions
    /\ ti' = 0
    /\ ret' = 0
    /\ day_open' = portfolio
    /\ UNCHANGED <<portfolio, margin_ratio, initial_capital, start_date,
                   end_date, skipped, called, value_call,
                   selected_analysts, workflow>>

\* the loop is exhausted: return pd.DataFrame(self.portfolio_values)
Finish ==
    /\ pc = "fetch"
    /\ di > Len(dates)
    /\ pc' = "done"
    /\ UNCHANGED <<portfolio, margin_ratio, initial_capital, start_date,
                   end_date, portfolio_values, di, current_prices, decisions,
                   ti, ret, skipped, called,
                   day_open, value_call,
                   selected_analysts, workflow>>

FetchPricesOk == FetchPrices(Prices)

Next ==
    \/ StartBacktest
    \/ FetchPricesOk
    \/ FetchPricesFail
    \/ CallAgent
    \/ TradeStep
    \/ RecordValue
    \/ Finish

Spec == Init /\ [][Next]_vars

\* the same run when every close of every day is the same price
ConstPrice == MaxPrice
FetchPricesConst == FetchPrices({ConstPrice})

NextConst ==
    \/ StartBacktest
    \/ FetchPricesConst
    \/ FetchPricesFail
    \/ CallAgent
    \/ TradeStep
    \/ RecordValue
    \/ Finish

SpecConst == Init /\ [][NextConst]_vars

\* run_backtest is one thread of straight-line code: as long as every call
\* it makes returns or raises, the step it is at is taken
SpecRun == SpecConst /\ WF_vars(NextConst)

\* the same run when the price source also returns closes that are zero or
\* negative
AnyPrices == {-1, 0, MaxPrice}
FetchPricesAny == FetchPrices(AnyPrices)

NextAnyPrice ==
    \/ StartBacktest
    \/ FetchPricesAny
    \/ FetchPricesFail
    \/ CallAgent
    \/ TradeStep
    \/ RecordValue
    \/ Finish

SpecAnyPrice == Init /\ [][NextAnyPrice]_vars

\* A two-day run in which the first ticker is bought on the first day and
\* sold on the second at given closes; the second ticker has closes of its
\* own and never trades.
Scenario ==
    [capital |-> 100000,
     start |-> 5,
     end |-> 8,
     close |-> <<100, 110>>,
     decision |-> <<[action |-> "buy", quantity |-> 500 * QtyDen],
                    [action |-> "sell", quantity |-> 500 * QtyDen]>>]

IdleDicts ==
    [action : ActionStrings \ {"buy", "sell"}, quantity : Quantities]

ScenarioMaps ==
    LET first == [t \in {tickers[1]} |-> Scenario.decision[di]] IN
    {first} \cup
    {[t \in Tickers |-> IF t = tickers[1] THEN first[t] ELSE d] :
        d \in IdleDicts}

InitScenario ==
    /\ initial_capital = Scenario.capital
    /\ margin_ratio \in MarginRatios
    /\ start_date = Scenario.start
    /\ end_date = Scenario.end
    /\ portfolio = NewPortfolio(initial_capital)
    /\ portfolio_values = <<>>
    /\ pc = "constructed"
    /\ di = 0
    /\ current_prices = NoPrices
    /\ decisions = NoDecisions
    /\ ti = 0
    /\ ret = 0
    /\ skipped = {}
    /\ called = {}
    /\ day_open = portfolio
    /\ value_call = NoCall
    /\ selected_analysts = <<>>
    /\ workflow = NoWorkflow

FetchPricesScenario ==
    /\ FetchPrices(Prices \cup {Scenario.close[i] : i \in 1..2})
    /\ current_prices'[tickers[1]] = Scenario.close[di]
    /\ \A i \in 2..Len(tickers) : current_prices'[tickers[i]] \in Prices

CallAgentScenario == CallAgentWith(ScenarioMaps)

NextScenario ==
    \/ StartBacktest
    \/ FetchPricesScenario
    \/ CallAgentScenario
    \/ TradeStep
    \/ RecordValue
    \/ Finish

SpecScenario == InitScenario /\ [][NextScenario]_vars

\* the agent's output when its last message may fail to parse:
\* parse_hedge_fund_response then returns None, which is what
\* output.get("decisions", {}) yields, the key being present
CallAgentParsed == CallAgentWith(DecisionMaps \cup {None})

\* decisions.get(ticker, ...) on None raises AttributeError, which nothing
\* in run_backtest catches
TradeRaises ==
    /\ pc = "trade"
    /\ decisions = None
    /\ pc' = "raised"
    /\ UNCHANGED <<portfolio, margin_ratio, initial_capital, start_date,
                   end_date, portfolio_values, di, current_prices, decisions,
                   ti, ret, skipped, called, day_open, value_call,
                   selected_analysts, workflow>>

NextParsed ==
    \/ StartBacktest
    \/ FetchPricesOk
    \/ FetchPricesFail
    \/ CallAgentParsed
    \/ TradeStep
    \/ TradeRaises
    \/ RecordValue
    \/ Finish

SpecParsed == Init /\ [][NextParsed]_vars

\* The agent of the command line is run_hedge_fund, which builds its
\* workflow from analyst keys before it produces decisions.
\* create_workflow's dictionary of the analysts it knows, key to node name
analyst_nodes ==
    [technical_analyst |-> "technical_analyst_agent",
     fundamentals_analyst |-> "fundamentals_agent",
     sentiment_analyst |-> "sentiment_agent",
     valuation_analyst |-> "valuation_agent",
     warren_buffett |-> "warren_buffett_agent",
     bill_ackman |-> "bill_ackman_agent"]

\* the keys run_hedge_fund passes when selected_analysts is empty
DefaultAnalysts ==
    <<"warren_buffett", "bill_ackman", "technicals", "fundamentals",
      "sentiment">>

\* selections a caller makes; the empty one is the default of Backtester
Selections ==
    {<<>>,
     <<"bill_ackman">>,
     <<"technical_analyst", "valuation_analyst">>,
     <<"warren_buffett", "sentiment_analyst", "fundamentals_analyst">>}

\* "selected_analysts if selected_analysts else [...]"
KeysPassed(selected) ==
    IF selected = <<>> THEN DefaultAnalysts ELSE selected

InitWorkflow ==
    /\ initial_capital \in Capitals
    /\ margin_ratio \in MarginRatios
    /\ start_date \in StartDates
    /\ end_date \in EndDates
    /\ portfolio = NewPortfolio(initial_capital)
    /\ portfolio_values = <<>>
    /\ pc = "constructed"
    /\ di = 0
    /\ current_prices = NoPrices
    /\ decisions = NoDecisions
    /\ ti = 0
    /\ ret = 0
    /\ skipped = {}
    /\ called = {}
    /\ day_open = portfolio
    /\ value_call = NoCall
    /\ selected_analysts \in Selections
    /\ workflow = NoWorkflow

\* self.agent(...) enters run_hedge_fund, which calls create_workflow
CreateWorkflow ==
    /\ pc = "agent"
    /\ workflow' = [keys |-> KeysPassed(selected_analysts), k |-> 1,
                    nodes |-> <<"start_node">>]
    /\ pc' = "workflow"
    /\ UNCHANGED <<portfolio, margin_ratio, initial_capital, start_date,
                   end_date, portfolio_values, di, current_prices, decisions,
                   ti, ret, skipped, called, day_open, value_call,
                   selected_analysts>>

\* one iteration of "for analyst_key in selected_analysts" with a key of
\* analyst_nodes
AddAnalystNode ==
    /\ pc = "workflow"
    /\ workflow.k <= Len(workflow.keys)
    /\ workflow.keys[workflow.k] \in DOMAIN analyst_nodes
    /\ workflow' =
         [workflow EXCEPT
            !.nodes = Append(@, analyst_nodes[workflow.keys[workflow.k]]),
            !.k = @ + 1]
    /\ UNCHANGED <<portfolio, margin_ratio, initial_capital, start_date,
                   end_date, portfolio_values, pc, di, current_prices,
                   decisions, ti, ret, skipped, called, day_open, value_call,
                   selected_analysts>>

\* analyst_nodes[analyst_key] with an unknown key raises KeyError; neither
\* run_hedge_fund (try/finally) nor run_backtest catches it
AddAnalystRaises ==
    /\ pc = "workflow"
    /\ workflow.k <= Len(workflow.keys)
    /\ workflow.keys[workflow.k] \notin DOMAIN analyst_nodes
    /\ pc' = "raised"
    /\ UNCHANGED <<portfolio, margin_ratio, initial_capital, start_date,
                   end_date, portfolio_values, di, current_prices, decisions,
                   ti, ret, skipped, called, day_open, value_call,
                   selected_analysts, workflow>>

\* the workflow is built and run, and run_hedge_fund returns its decisions
AgentReturns ==
    /\ pc = "workflow"
    /\ workflow.k > Len(workflow.keys)
    /\ \E ds \in DecisionMaps : decisions' = ds
    /\ called' = called \cup {dates[di]}
    /\ day_open' = portfolio
    /\ ti' = 1
    /\ pc' = "trade"
    /\ workflow' = NoWorkflow
    /\ UNCHANGED <<portfolio, margin_ratio, initial_capital, start_date,
                   end_date, portfolio_values, di, current_prices, ret,
                   skipped, value_call, selected_analysts>>

NextWorkflow ==
    \/ StartBacktest
    \/ FetchPricesConst
    \/ FetchPricesFail
    \/ CreateWorkflow
    \/ AddAnalystNode
    \/ AddAnalystRaises
    \/ AgentReturns
    \/ TradeStep
    \/ RecordValue
    \/ Finish

SpecWorkflow == InitWorkflow /\ [][NextWorkflow]_vars

\* calculate_portfolio_value is a public method: once the run is over, a
\* caller values the ledger with a snapshot of its own
DirectValueCall ==
    /\ pc = "done"
    /\ ~value_call.made
    /\ \E prices \in Snapshots :
         LET r == CallValue(portfolio, prices) IN
         value_call' = [made |-> TRUE, prices |-> prices,
                        raised |-> r.raised, value |-> r.value]
    /\ UNCHANGED <<portfolio, margin_ratio, initial_capital, start_date,
                   end_date, portfolio_values, pc, di, current_prices,
                   decisions, ti, ret, skipped, called, day_open,
                   selected_analysts, workflow>>

NextValue ==
    \/ StartBacktest
    \/ FetchPricesOk
    \/ FetchPricesFail
    \/ CallAgent
    \/ TradeStep
    \/ RecordValue
    \/ Finish
    \/ DirectValueCall

SpecValue == Init /\ [][NextValue]_vars

\* The agent is handed self.portfolio itself, not a copy: while it runs it
\* can write into the ledger.  Here it records a short position of its own.
AgentWritesPortfolio ==
    /\ pc = "agent"
    /\ \E t \in Tickers :
         /\ portfolio.positions[t].short = 0
         /\ portfolio' =
              [portfolio EXCEPT !.positions[t].short = IntOf(MaxQty)]
    /\ UNCHANGED <<margin_ratio, initial_capital, start_date, end_date,
                   portfolio_values, pc, di, current_prices, decisions, ti,
                   ret, skipped, called,
                   day_open, value_call,
                   selected_analysts, workflow>>

NextShared ==
    \/ StartBacktest
    \/ FetchPricesOk
    \/ FetchPricesFail
    \/ AgentWritesPortfolio
    \/ CallAgent
    \/ TradeStep
    \/ RecordValue
    \/ Finish

SpecShared == Init /\ [][NextShared]_vars

\* ------------------------------------------------------- the trade call
\* Arguments of the execute_trade call that the next TradeStep makes
\* (meaningful while pc = "trade"), and of the call that was made last
\* (meaningful once ti > 1).
ArgTicker == tickers[ti]
ArgAction == DecisionOf(decisions, ArgTicker).action
ArgQuantity == DecisionOf(decisions, ArgTicker).quantity
ArgPrice == current_prices[ArgTicker]
ArgPosition == portfolio.positions[ArgTicker]

Traded == pc \in {"trade", "value"} /\ ti > 1
LastTicker == tickers[ti - 1]
LastAction == DecisionOf(decisions, LastTicker).action
LastQuantity == DecisionOf(decisions, LastTicker).quantity
LastPrice == current_prices[LastTicker]

\* the request is a whole number of shares, at least one
WholeRequest(quantity) == quantity >= QtyDen /\ quantity % QtyDen = 0

\* ---------------------------------------------------------------- C1
\* C1: after every execute_trade call, whatever the ticker, action,
\* quantity and (positive) price, and in any sequence of calls over the
\* whole run, portfolio cash is >= 0.
C1_CashNonNegative == portfolio.cash >= 0

\* a buy has filled and has used up all the cash
C1_Witness ==
    /\ Traded
    /\ LastAction = "buy"
    /\ ret > 0
    /\ portfolio.cash = 0

\* ---------------------------------------------------------------- C2
\* C2: a buy of a whole quantity q >= 1 at price p > 0 fills exactly
\* min(q, floor(cash / p)): a request that costs more than the cash is
\* filled partially, never rejected outright.
C2_BuyFillsAffordable ==
    [][(TradeStep /\ ArgAction = "buy" /\ WholeRequest(ArgQuantity))
         => ret' = Min(IntOf(ArgQuantity), portfolio.cash \div ArgPrice)]_vars

\* ---------------------------------------------------------------- C3
\* C3: after a buy that fills f > 0 shares at price p on a position of
\* oldShares at oldBasis, long_cost_basis is
\* (oldShares*oldBasis + f*p) / (oldShares + f).
C3_BuyAveragesCostBasis ==
    [][(TradeStep /\ ArgAction = "buy" /\ ret' > 0)
         => portfolio'.positions[ArgTicker].long_cost_basis
              * (ArgPosition.long + ret')
            = ArgPosition.long * ArgPosition.long_cost_basis
              + ret' * ArgPrice]_vars

\* ---------------------------------------------------------------- C4
\* C4: a sell of a whole quantity q >= 1 fills exactly min(q, long),
\* takes the fill off long and adds fill * price to cash; selling more
\* than held is capped, so long never becomes negative.
C4_SellStep ==
    (TradeStep /\ ArgAction = "sell" /\ WholeRequest(ArgQuantity))
      => /\ ret' = Min(IntOf(ArgQuantity), ArgPosition.long)
         /\ portfolio'.positions[ArgTicker].long = ArgPosition.long - ret'
         /\ portfolio'.cash = portfolio.cash + ret' * ArgPrice

C4_LongNonNegative == \A t \in Tickers : portfolio.positions[t].long >= 0

C4_SellCapped == [][C4_SellStep]_vars /\ []C4_LongNonNegative

\* a sell of more shares than held has filled what was held
C4_Witness ==
    /\ Traded
    /\ LastAction = "sell"
    /\ WholeRequest(LastQuantity)
    /\ ret > 0
    /\ ret < IntOf(LastQuantity)
    /\ portfolio.positions[LastTicker].long = 0

\* ---------------------------------------------------------------- C5
\* C5: every sell that fills f > 0 shares at price p adds
\* (p - long_cost_basis) * f to realized_gains[ticker].long, with the basis
\* of before the sell; no other operation changes realized_gains[...].long.
C5_SellFilled == TradeStep /\ ArgAction = "sell" /\ ret' > 0

C5_SellRealizesGain ==
    [][/\ C5_SellFilled
          => portfolio'.realized_gains[ArgTicker].long
             = portfolio.realized_gains[ArgTicker].long
               + (ArgPrice - ArgPosition.long_cost_basis) * ret'
       /\ \A t \in Tickers :
            ~(C5_SellFilled /\ t = ArgTicker)
              => portfolio'.realized_gains[t].long
                 = portfolio.realized_gains[t].long]_vars

\* ---------------------------------------------------------------- C6
\* C6: over any sequence of buy and sell trades at one constant price p,
\* cash + long * p stays what it was before the sequence (here: the
\* initial capital, every position starting empty).
C6_ValueConserved ==
    calculate_portfolio_value(portfolio, [t \in Tickers |-> ConstPrice])
      = initial_capital

\* a buy and then a sell of the same instrument have both filled
C6_Witness ==
    /\ Traded
    /\ LastAction = "sell"
    /\ ret > 0
    /\ Len(portfolio_values) > 1
    /\ portfolio.cash < initial_capital

\* ---------------------------------------------------------------- C7
\* C7: a short of a whole quantity q >= 1 at price p whose collateral
\* q*p*margin_ratio is within cash - margin_used fills q: short grows by q,
\* short_cost_basis becomes the volume-weighted average entry price, and
\* short_margin_used and margin_used both grow by q*p*margin_ratio.
C7_Collateral == IntOf(ArgQuantity) * ArgPrice * margin_ratio

C7_ShortFills ==
    [][(/\ TradeStep
        /\ ArgAction = "short"
        /\ WholeRequest(ArgQuantity)
        /\ C7_Collateral <= portfolio.cash * RatioDen - portfolio.margin_used)
         => /\ ret' = IntOf(ArgQuantity)
            /\ portfolio'.positions[ArgTicker].short
                 = ArgPosition.short + IntOf(ArgQuantity)
            /\ portfolio'.positions[ArgTicker].short_cost_basis
                  * portfolio'.positions[ArgTicker].short
                 = ArgPosition.short * ArgPosition.short_cost_basis
                   + IntOf(ArgQuantity) * ArgPrice
            /\ portfolio'.positions[ArgTicker].short_margin_used
                 = ArgPosition.short_margin_used + C7_Collateral
            /\ portfolio'.margin_used
                 = portfolio.margin_used + C7_Collateral]_vars

\* ---------------------------------------------------------------- C8
\* C8: a short is never filled beyond the margin capacity: the fill f is at
\* most the request, f*p*margin_ratio <= cash - margin_used (values of
\* before the trade), and right after a short trade margin_used <= cash.
C8_ShortWithinMargin ==
    [][(TradeStep /\ ArgAction = "short")
         => /\ ret' >= 0
            /\ ret' * QtyDen <= (IF ArgQuantity > 0 THEN ArgQuantity ELSE 0)
            /\ ret' * ArgPrice * margin_ratio
                 <= portfolio.cash * RatioDen - portfolio.margin_used
            /\ portfolio'.margin_used <= portfolio'.cash * RatioDen]_vars

\* a short of at least one share was requested with a positive margin
\* ratio, when the cash could not carry its collateral
C8_Witness ==
    /\ Traded
    /\ LastAction = "short"
    /\ WholeRequest(LastQuantity)
    /\ margin_ratio > 0
    /\ IntOf(LastQuantity) * LastPrice * margin_ratio
         > portfolio.cash * RatioDen - portfolio.margin_used

\* ---------------------------------------------------------------- C9
\* C9: a cover of a whole quantity q >= 1 fills f = min(q, short); it takes
\* f off short, takes short_margin_used * f / short (the released margin)
\* off short_margin_used and off margin_used, adds
\* (short_cost_basis - price) * f to realized_gains[ticker].short, and
\* changes cash by -f * price + released margin.
C9_Fill == Min(IntOf(ArgQuantity), ArgPosition.short)

C9_CoverStep ==
    (TradeStep /\ ArgAction = "cover" /\ WholeRequest(ArgQuantity))
      => /\ ret' = C9_Fill
         /\ portfolio'.positions[ArgTicker].short
              = ArgPosition.short - C9_Fill
         /\ portfolio'.realized_gains[ArgTicker].short
              = portfolio.realized_gains[ArgTicker].short
                + (ArgPosition.short_cost_basis - ArgPrice) * C9_Fill
         /\ portfolio'.positions[ArgTicker].short_margin_used
               * ArgPosition.short
              = ArgPosition.short_margin_used
                  * (ArgPosition.short - C9_Fill)
         /\ (portfolio.margin_used - portfolio'.margin_used)
               * ArgPosition.short
              = ArgPosition.short_margin_used * C9_Fill
         /\ (portfolio'.cash - portfolio.cash + C9_Fill * ArgPrice)
               * RatioDen * ArgPosition.short
              = ArgPosition.short_margin_used * C9_Fill

C9_CoverFills == [][C9_CoverStep]_vars

\* ---------------------------------------------------------------- C10
\* C10 as stated: a date whose price fetch failed has no record in the
\* history, the agent was not invoked for it, its iteration left the
\* ledger as it was, and the loop went on to the next date.
C10_SkipStep ==
    skipped' # skipped
      => /\ portfolio' = portfolio
         /\ portfolio_values' = portfolio_values
         /\ called' = called
         /\ pc' = "fetch"
         /\ di' = di + 1

C10_NotCalled == skipped \cap called = {}

C10_NoRecordOfSkippedDate ==
    \A i \in 1..Len(portfolio_values) :
        portfolio_values[i].Date \notin skipped

C10_Original ==
    /\ []C10_NoRecordOfSkippedDate
    /\ []C10_NotCalled
    /\ [][C10_SkipStep]_vars

\* C10 as amended: the iteration of a date whose price fetch failed appends
\* no record (the only record that can carry the date is the seed that
\* run_backtest writes before the loop: first date, initial capital), does
\* not invoke the agent, leaves the ledger as it was, and the loop goes on
\* to the next date.
C10_OnlySeedCarriesSkippedDate ==
    \A i \in 1..Len(portfolio_values) :
        portfolio_values[i].Date \in skipped
          => /\ i = 1
             /\ portfolio_values[i]
                  = [Date |-> dates[1], Value |-> initial_capital]

C10_DaySkipped ==
    /\ []C10_OnlySeedCarriesSkippedDate
    /\ []C10_NotCalled
    /\ [][C10_SkipStep]_vars

\* the run is over; the first date was skipped and the second was not
C10_Witness ==
    /\ pc = "done"
    /\ Len(dates) = 2
    /\ dates[1] \in skipped
    /\ dates[2] \in called
    /\ Len(portfolio_values) = 2

\* ---------------------------------------------------------------- C11
\* between iterations every date in "called" has been simulated to its end
BetweenDays == pc \in {"fetch", "done"}

RecordDates(from) ==
    {portfolio_values[i].Date : i \in from..Len(portfolio_values)}

DatesIncreaseFrom(from) ==
    \A i, j \in from..Len(portfolio_values) :
        i < j => portfolio_values[i].Date < portfolio_values[j].Date

\* the history only grows, and only at its end
C11_AppendOnly ==
    /\ Len(portfolio_values') >= Len(portfolio_values)
    /\ \A i \in 1..Len(portfolio_values) :
         portfolio_values'[i] = portfolio_values[i]

\* C11 as stated: the history holds exactly one record per simulated
\* (non-skipped) business day and nothing else, in strictly increasing date
\* order, and only ever grows by appending.
C11_OnePerSimulatedDay ==
    /\ DatesIncreaseFrom(1)
    /\ BetweenDays
         => /\ RecordDates(1) = called
            /\ Len(portfolio_values) = Cardinality(called)

C11_Original == []C11_OnePerSimulatedDay /\ [][C11_AppendOnly]_vars

\* C11 as amended: the history is the seed record (first business day,
\* initial capital; present when the range has a business day) followed by
\* exactly one record per simulated business day, those in strictly
\* increasing date order; it only ever grows by appending.
C11_SeedThenOnePerSimulatedDay ==
    /\ pc # "constructed"
         => IF Len(dates) = 0 THEN portfolio_values = <<>>
            ELSE /\ Len(portfolio_values) >= 1
                 /\ portfolio_values[1]
                      = [Date |-> dates[1], Value |-> initial_capital]
    /\ DatesIncreaseFrom(2)
    /\ BetweenDays
         => /\ RecordDates(2) = called
            /\ Len(portfolio_values)
                 = Cardinality(called) + (IF Len(dates) = 0 THEN 0 ELSE 1)

C11_History ==
    []C11_SeedThenOnePerSimulatedDay /\ [][C11_AppendOnly]_vars

\* the run is over with both business days simulated: three records, the
\* first date twice
C11_Witness ==
    /\ pc = "done"
    /\ Cardinality(called) = 2
    /\ Len(portfolio_values) = 3
    /\ portfolio_values[1].Date = portfolio_values[2].Date
    /\ portfolio_values[2].Date < portfolio_values[3].Date

\* ---------------------------------------------------------------- C12
SumLong(pf, prices) ==
    LET RECURSIVE Sum(_)
        Sum(S) == IF S = {} THEN 0
                  ELSE LET t == CHOOSE x \in S : TRUE
                       IN pf.positions[t].long * prices[t] + Sum(S \ {t})
    IN Sum(Tickers)

\* C12: the valuation is exactly cash + the sum over every ticker of
\* long * price; short shares and pledged margin do not enter it; and the
\* call changes no field of the ledger.
C12_ValuationStep ==
    pc = "value"
      => /\ portfolio' = portfolio
         /\ portfolio_values'[Len(portfolio_values')].Value
              = portfolio.cash + SumLong(portfolio, current_prices)

C12_MarkToMarket == [][C12_ValuationStep]_vars

\* a day was valued with an open long and an open short
C12_Witness ==
    /\ BetweenDays
    /\ Len(portfolio_values) >= 2
    /\ \E t \in Tickers : portfolio.positions[t].long > 0
    /\ \E t \in Tickers : portfolio.positions[t].short > 0
    /\ portfolio_values[Len(portfolio_values)].Value > portfolio.cash

\* ---------------------------------------------------------------- C13
TradingActions == {"buy", "sell", "short", "cover"}

\* every ticker's decision of the day reads as (hold, 0)
AllHold ==
    \A t \in Tickers :
        DecisionOf(decisions, t) = [action |-> "hold", quantity |-> 0]

\* C13: execute_trade with hold, or with an action outside buy, sell, short
\* and cover, returns 0 and leaves the whole portfolio as it was, whatever
\* the quantity and price; a day whose decisions are all (hold, 0) leaves
\* the ledger as the day found it and records the mark-to-market of that
\* unchanged ledger at the day's prices.
C13_HoldStep ==
    (TradeStep /\ ArgAction \notin TradingActions)
      => ret' = 0 /\ portfolio' = portfolio

C13_HoldDayStep ==
    (pc = "value" /\ AllHold)
      => /\ portfolio' = day_open
         /\ portfolio_values'[Len(portfolio_values')].Value
              = day_open.cash + SumLong(day_open, current_prices)

C13_HoldDayLedger == (pc = "value" /\ AllHold) => portfolio = day_open

C13_HoldIsNoOp ==
    /\ [][C13_HoldStep]_vars
    /\ [][C13_HoldDayStep]_vars
    /\ []C13_HoldDayLedger

\* a day of explicit (hold, 0) decisions on a ledger that holds shares
\* bought earlier
C13_Witness ==
    /\ pc = "value"
    /\ AllHold
    /\ DOMAIN decisions = Tickers
    /\ \A t \in Tickers : "action" \in DOMAIN decisions[t]
    /\ \E t \in Tickers : portfolio.positions[t].long > 0

\* ---------------------------------------------------------------- C14
\* floor of a non-negative quantity, from its definition
Floor(quantity) ==
    CHOOSE n \in 0..quantity :
        n * QtyDen <= quantity /\ quantity < (n + 1) * QtyDen

\* C14: for every action a quantity <= 0 fills 0 and leaves the ledger as
\* it was; a positive fractional quantity is treated as its floor; the fill
\* is an integer f with 0 <= f <= max(0, floor(quantity)).
C14_QuantityStep ==
    TradeStep
      => /\ ArgQuantity <= 0 => (ret' = 0 /\ portfolio' = portfolio)
         /\ ret' >= 0
         /\ ret' <= (IF ArgQuantity > 0 THEN Floor(ArgQuantity) ELSE 0)
         /\ ArgQuantity > 0
              => LET whole == execute_trade(portfolio, ArgTicker, ArgAction,
                                            Floor(ArgQuantity) * QtyDen,
                                            ArgPrice)
                 IN (Floor(ArgQuantity) > 0 => ret' = whole.ret
                                              /\ portfolio' = whole.portfolio)
                    /\ (Floor(ArgQuantity) = 0 => ret' = 0
                                                  /\ portfolio' = portfolio)

C14_QuantityClamped == [][C14_QuantityStep]_vars

\* a buy of one share and a half has filled one share
C14_Witness ==
    /\ Traded
    /\ LastAction = "buy"
    /\ LastQuantity > QtyDen
    /\ LastQuantity % QtyDen # 0
    /\ ret > 0
    /\ ret * QtyDen < LastQuantity

\* ---------------------------------------------------------------- C15
\* the ticker is absent from the decisions, or its decision has no action,
\* or an action that is none of the five
Malformed(t) ==
    \/ t \notin DOMAIN decisions
    \/ "action" \notin DOMAIN decisions[t]
    \/ decisions[t].action \notin (TradingActions \cup {"hold"})

\* C15: a ticker absent from the decisions, or whose decision has a missing
\* or unrecognised action, trades nothing; the other tickers' decisions of
\* the day are still executed, and the day's valuation is recorded.
C15_MalformedStep ==
    (TradeStep /\ Malformed(ArgTicker))
      => /\ ret' = 0
         /\ portfolio' = portfolio
         /\ ti' = ti + 1
         /\ pc' \in {"trade", "value"}

\* an affordable buy fills, whatever the other tickers' decisions are
C15_OthersStep ==
    (/\ TradeStep
     /\ ~Malformed(ArgTicker)
     /\ ArgAction = "buy"
     /\ ArgQuantity > 0
     /\ IntOf(ArgQuantity) * ArgPrice <= portfolio.cash)
      => /\ ret' = IntOf(ArgQuantity)
         /\ portfolio'.positions[ArgTicker].long
              = ArgPosition.long + IntOf(ArgQuantity)

\* every day the agent was called for ran all its trades and has its record
C15_DayRecorded ==
    /\ pc = "value" => ti = Len(tickers) + 1
    /\ BetweenDays => called \subseteq RecordDates(2)

C15_MalformedIsHold ==
    /\ [][C15_MalformedStep]_vars
    /\ [][C15_OthersStep]_vars
    /\ []C15_DayRecorded

\* the first ticker was absent, the second one's buy has filled, and the
\* day is about to be valued
C15_Witness ==
    /\ pc = "value"
    /\ tickers[1] \notin DOMAIN decisions
    /\ LastTicker = tickers[2]
    /\ LastAction = "buy"
    /\ ret > 0

\* ---------------------------------------------------------------- C20
\* C20: calculate_portfolio_value called with a snapshot that lacks a
\* ticker of the universe fails with an error instead of returning a value
\* (never a partial sum), and leaves the ledger as it was.
C20_MissingPriceRaises ==
    (value_call.made /\ Tickers \ DOMAIN value_call.prices # {})
      => value_call.raised

C20_CallStep ==
    value_call' # value_call
      => portfolio' = portfolio /\ portfolio_values' = portfolio_values

C20_MissingPrice == []C20_MissingPriceRaises /\ [][C20_CallStep]_vars

\* the ledger holds shares of both tickers and was valued with a snapshot
\* that has a price for the second ticker only
C20_Witness ==
    /\ value_call.made
    /\ DOMAIN value_call.prices = {tickers[2]}
    /\ value_call.raised
    /\ \A t \in Tickers : portfolio.positions[t].long > 0

\* ---------------------------------------------------------------- C16
LastRecord == portfolio_values[Len(portfolio_values)]

\* C16: initial cash 100000; day 1 at price 100 with (buy, 500) fills 500
\* and leaves cash 50000, long 500 and a day-1 valuation of 100000; day 2 at
\* price 110 with (sell, 500) fills 500 and leaves cash 105000, realized
\* long gains 5000 and a day-2 valuation of 105000.
C16_EndToEnd ==
    /\ (Traded /\ LastTicker = tickers[1]) => ret = 500
    /\ (pc = "fetch" /\ di = 2)
         => /\ portfolio.cash = 50000
            /\ portfolio.positions[tickers[1]].long = 500
            /\ LastRecord.Value = 100000
    /\ (pc \in {"fetch", "done"} /\ di = 3)
         => /\ portfolio.cash = 105000
            /\ portfolio.realized_gains[tickers[1]].long = 5000
            /\ LastRecord.Value = 105000

\* ---------------------------------------------------------------- C17
\* C17: a close <= 0 returned for a ticker is fatal: the run aborts, so the
\* iteration never goes on to the agent, to a trade or to the valuation
\* with that snapshot, and no trade is executed at such a price.
C17_NoStepWithBadPrice ==
    pc \in {"agent", "trade", "value"}
      => \A t \in Tickers : current_prices[t] > 0

C17_NoTradeAtBadPrice == TradeStep => ArgPrice > 0

C17_BadPriceIsFatal ==
    []C17_NoStepWithBadPrice /\ [][C17_NoTradeAtBadPrice]_vars

\* ---------------------------------------------------------------- C18
SumShortMargin ==
    LET RECURSIVE Sum(_)
        Sum(S) == IF S = {} THEN 0
                  ELSE LET t == CHOOSE x \in S : TRUE
                       IN portfolio.positions[t].short_margin_used
                          + Sum(S \ {t})
    IN Sum(Tickers)

\* C18: in every reachable ledger state margin_used equals the sum over all
\* tickers of the positions' short_margin_used.
C18_MarginUsedIsSum == portfolio.margin_used = SumShortMargin

\* a short was requested with a positive margin ratio and the cash to
\* carry its collateral
C18_Witness ==
    /\ Traded
    /\ LastAction = "short"
    /\ WholeRequest(LastQuantity)
    /\ margin_ratio > 0
    /\ IntOf(LastQuantity) * LastPrice * margin_ratio
         <= portfolio.cash * RatioDen - portfolio.margin_used

\* ---------------------------------------------------------------- C19
\* C19: in every reachable ledger state, for every ticker, long = 0 implies
\* long_cost_basis = 0 and short = 0 implies short_cost_basis = 0.
C19_EmptySideHasNoBasis ==
    \A t \in Tickers :
        /\ portfolio.positions[t].long = 0
             => portfolio.positions[t].long_cost_basis = 0
        /\ portfolio.positions[t].short = 0
             => portfolio.positions[t].short_cost_basis = 0

\* a sell has closed a whole long position
C19_Witness ==
    /\ Traded
    /\ LastAction = "sell"
    /\ ret > 0
    /\ ret = IntOf(LastQuantity)
    /\ portfolio.positions[LastTicker].long = 0

\* ---------------------------------------------------------------- C21
\* the cost of the buy that the call in progress asks for
C21_Cost == IntOf(ArgQuantity) * ArgPrice

\* a trade call is the call of the next ticker of the universe, and a buy
\* is decided on the cash the previous calls of the day have left
C21_TradeStep ==
    TradeStep =>
      /\ ti \in 1..Len(tickers)
      /\ ti' = ti + 1
      /\ (ArgAction = "buy" /\ ArgQuantity > 0)
           => /\ ret' = IF C21_Cost <= portfolio.cash
                        THEN IntOf(ArgQuantity) ELSE 0
              /\ portfolio'.cash = portfolio.cash - ret' * ArgPrice

\* the valuation is taken when every ticker has had its call
C21_ValueStep == RecordValue => ti = Len(tickers) + 1

\* while the trades of a day are under way, the tickers before ti have had
\* their call and no other
C21_OncePerTicker ==
    /\ pc = "trade" => ti \in 1..Len(tickers)
    /\ pc = "value" => ti = Len(tickers) + 1

\* C21: on a non-skipped day execute_trade is called once per ticker, in
\* the order of self.tickers, each call seeing the cash left by the calls
\* before it on the same day, and the valuation comes after the last trade.
C21_SequentialTrades ==
    /\ []C21_OncePerTicker
    /\ [][C21_TradeStep]_vars
    /\ [][C21_ValueStep]_vars

\* an earlier buy of the day has left a later buy without the cash that
\* the day opened with
C21_Witness ==
    /\ pc = "value"
    /\ LastAction = "buy"
    /\ LastQuantity >= QtyDen
    /\ ret = 0
    /\ IntOf(LastQuantity) * LastPrice <= day_open.cash
    /\ IntOf(LastQuantity) * LastPrice > portfolio.cash
    /\ portfolio.positions[tickers[1]].long
         > day_open.positions[tickers[1]].long

\* ---------------------------------------------------------------- C22
\* current_prices holds a close of the day for every ticker
C22_SnapshotComplete == \A t \in Tickers : current_prices[t] \in Prices

\* past the price fetch of a day, the day's snapshot is complete and the
\* day was not skipped; trades and valuation come after the agent's call
C22_DayState ==
    /\ pc \in {"agent", "trade", "value"}
         => /\ C22_SnapshotComplete
            /\ dates[di] \notin skipped
    /\ pc = "agent" => dates[di] \notin called
    /\ pc \in {"trade", "value"} => dates[di] \in called

C22_DayStep ==
    /\ FetchPricesOk => dates[di] \notin called
    /\ CallAgent => C22_SnapshotComplete /\ current_prices' = current_prices
    /\ TradeStep
         => /\ dates[di] \in called
            /\ ArgPrice \in Prices
            /\ current_prices' = current_prices
    /\ RecordValue => dates[di] \in called /\ ti = Len(tickers) + 1

\* C22: within a day prices are acquired for every ticker, then the agent
\* is called, then the trades run, then the valuation is recorded; neither
\* the agent nor execute_trade is called for a day whose snapshot is not
\* complete, and every trade takes its price from that snapshot.
C22_DayOrder == []C22_DayState /\ [][C22_DayStep]_vars

\* a trade has filled on a day that follows a skipped day
C22_Witness ==
    /\ pc = "value"
    /\ skipped # {}
    /\ ret > 0
    /\ C22_SnapshotComplete

\* ---------------------------------------------------------------- C23
\* the days of the date range that fall on Monday to Friday
C23_Weekdays == {d \in start_date..end_date : (d % 7) \in 1..5}

\* the days whose iteration has begun
C23_Visited == skipped \cup called

\* a day is visited once, after every day visited before it, and a failed
\* fetch leaves the run in its loop
C23_VisitStep ==
    /\ (FetchPricesFail \/ CallAgent)
         => /\ dates[di] \notin C23_Visited
            /\ \A d \in C23_Visited : d < dates[di]
            /\ dates[di] \in C23_Weekdays
    /\ FetchPricesFail => pc' = "fetch"

\* when the run has completed, every weekday of the range has been visited,
\* each either skipped or simulated
C23_AtDone ==
    pc = "done"
      => /\ C23_Visited = C23_Weekdays
         /\ skipped \cap called = {}

C24_KeysAreUniverse ==
    /\ DOMAIN portfolio.positions = Tickers
    /\ DOMAIN portfolio.realized_gains = Tickers

C24_OnlyTradesWrite == portfolio' # portfolio => TradeStep

\* C24: the ledger changes only inside execute_trade calls made by the
\* driver; nothing the agent does to the portfolio object it is given
\* changes cash, positions or realized gains, and the keys of positions
\* and realized gains stay the tickers fixed at construction.
C24_LedgerFrame == []C24_KeysAreUniverse /\ [][C24_OnlyTradesWrite]_vars

\* ---------------------------------------------------------------- C25
\* a day whose decisions are None runs its trade calls as holds
C25_UnparsedStep ==
    (pc = "trade" /\ decisions = None)
      => /\ pc' \in {"trade", "value"}
         /\ ti' = ti + 1
         /\ ret' = 0
         /\ portfolio' = portfolio

C25_DayDoesNotFail == pc # "raised"

\* C25: when the agent's final message is not JSON, so that the decisions
\* are None, the day does not fail: every ticker is treated as (hold, 0),
\* the ledger is unchanged by the day and the day's valuation is appended.
C25_UnparsedIsHold == []C25_DayDoesNotFail /\ [][C25_UnparsedStep]_vars

\* ---------------------------------------------------------------- C26
\* the value of a ledger at the prices of the day
C26_ValueAt(pf) == pf.cash + SumLong(pf, current_prices)

\* during the trades of a day the ledger is worth, at the day's prices,
\* what it was worth when the day's trades began
C26_ValueKept ==
    pc \in {"trade", "value"}
      => C26_ValueAt(portfolio) = C26_ValueAt(day_open)

\* the record of the day carries the value of the ledger of before the
\* day's first trade
C26_RecordStep ==
    RecordValue
      => portfolio_values'[Len(portfolio_values')].Value
           = C26_ValueAt(day_open)

\* C26: with all prices > 0, the trades of a non-skipped day do not change
\* the portfolio's value at that day's prices: the valuation recorded for
\* the day is the mark-to-market, at the same prices, of the ledger as it
\* was before the day's first trade.
C26_TradesKeepValue == []C26_ValueKept /\ [][C26_RecordStep]_vars

\* a day on which one ticker was bought and another sold
C26_Witness ==
    /\ pc = "value"
    /\ \E s, t \in Tickers :
         /\ portfolio.positions[s].long > day_open.positions[s].long
         /\ portfolio.positions[t].long < day_open.positions[t].long

\* ---------------------------------------------------------------- C27
\* with no analysts selected, every key handed to create_workflow is one it
\* knows
C27_KeysAccepted ==
    (pc = "workflow" /\ selected_analysts = <<>>)
      => \A i \in 1..Len(workflow.keys) :
            workflow.keys[i] \in DOMAIN analyst_nodes

\* with no analysts selected, the agent call does not raise
C27_AgentCallSucceeds == selected_analysts = <<>> => pc # "raised"

\* C27: every analyst key that run_hedge_fund passes to create_workflow
\* when the caller selects no analysts is a key create_workflow accepts,
\* so the workflow is built and a Backtester with default arguments gets
\* its decisions for a day instead of aborting with a lookup error.
C27_DefaultAnalystsKnown == C27_KeysAccepted /\ C27_AgentCallSucceeds

\* ---------------------------------------------------------------- C28
\* an execute_trade call leaves the position and the realized gains of
\* every ticker other than its own as they were
C28_OthersStep ==
    TradeStep
      => \A t \in Tickers \ {ArgTicker} :
            /\ portfolio'.positions[t] = portfolio.positions[t]
            /\ portfolio'.realized_gains[t] = portfolio.realized_gains[t]

\* C28: execute_trade on ticker s changes at most cash, margin_used and the
\* position and realized gains of s; for every other ticker t all five
\* position fields and both realized-gain fields are unchanged, for any
\* action, quantity and price.
C28_OtherTickersUnchanged == [][C28_OthersStep]_vars

\* a trade on the second ticker has filled while the first is held
C28_Witness ==
    /\ Traded
    /\ LastTicker = tickers[2]
    /\ ret > 0
    /\ portfolio.positions[tickers[1]].long > 0
====
